---- MODULE Spec2Model ----
(***************************************************************************)
(* A model of libusbx's pluggable allocator (src/libusb/allocator.c,       *)
(* allocatori.h) and logger (src/libusb/logger.c, loggeri.h).              *)
(*                                                                         *)
(* Memory is a finite set of block addresses.  The platform provider       *)
(* (malloc/realloc/free) is nondeterministic: it may fail, resize in       *)
(* place, or move a block to any free address.  size_t arithmetic is       *)
(* modular; the width is scaled down to SIZE_BITS so that TLC's integers   *)
(* can represent it.                                                       *)
(***************************************************************************)
EXTENDS Integers, Sequences, FiniteSets, TLC

\* ------------------------------------------------------------------ bounds
MaxBlocks == 3      \* number of block addresses the provider can hand out
MaxReq    == 4      \* number of allocator requests in one run
MaxWalk   == 4      \* number of visit calls in one walk
NThreads  == 2      \* number of threads using the logger
MaxEntries == 2     \* begin calls in one run, all threads together
MaxExtend == 2      \* extend calls in one run, all threads together
MaxInit == 1        \* logger (re)initialisations in one run
USBI_MAX_LOG_LEN == 3   \* size of the buffered backend's buffer (scaled down)

\* --------------------------------------------------------------- constants
NULL == 0
SIZE_BITS == 16
SIZE_MOD == 2 ^ SIZE_BITS
AddrStride == 256
sizeof_usbi_pool_entry == 80

Addr == { k * AddrStride : k \in 1..MaxBlocks }

USBI_MEM_TO_ENTRY(mem) == mem - sizeof_usbi_pool_entry
USBI_ENTRY_TO_MEM(entry) == entry + sizeof_usbi_pool_entry

\* ------------------------------------------------------------------ inputs
Provenance ==
  { [label |-> "X", file |-> "a.c", func |-> "f", line |-> 10, stamp |-> 1],
    [label |-> "Y", file |-> "b.c", func |-> "g", line |-> 20, stamp |-> 2] }

\* <<head, count, size>> triples a caller passes
SizeTriples ==
  { <<0, 0, 0>>, <<16, 1, 16>>, <<SIZE_MOD - sizeof_usbi_pool_entry, 0, 0>> }

\* the request size of the documentation: total = head + count * size
MathTotal(head, count, size) == head + count * size

\* the four request kinds of the documented contract
RequestKind(mem, head, count, size) ==
  IF MathTotal(head, count, size) = 0
  THEN (IF mem = NULL THEN "noop" ELSE "release")
  ELSE (IF mem = NULL THEN "fresh" ELSE "resize")

VARIABLES
  heap,       \* [Addr -> usbi_pool_entry]  memory contents at each address
  asize,      \* [Addr -> Nat]  provider bookkeeping: bytes allocated, 0 = free
  first,      \* usbi_pool_control.first
  last,       \* usbi_pool_control.last
  crashed,    \* the process was killed by a detected invalid memory access
  live,       \* caller's view: user addresses it holds, in first-allocation order
  req,        \* the most recent allocator request and its outcome
  nreq,       \* number of requests issued
  frr,        \* every request so far was a fresh allocation, resize or release
              \* whose total with the entry header fits size_t
  wpc,        \* walk: "idle", "loop", "done"
  wentry,     \* walk: local variable entry
  walkinfo,   \* walk: local variable walkinfo (the accumulator)
  wa0,        \* walk: the walkinfo argument the caller passed
  wcalls,     \* walk: the visit calls made so far <<[arg, entry, ret]>>
  dreq,       \* pass-through backend: the most recent request and its outcome
  backend,    \* which logger is built: "console" or "android"
  log,        \* the logger's data: usbi_default_logger_log / usbi_android_logger_log
  tpc,        \* per thread: "idle", "lock" (in begin, before the mutex), "entry"
  targ,       \* per thread: the arguments of its begin call
  tcount,     \* per thread: begin calls made, extend calls made
  ninit,      \* number of times the logger's init was called
  tmine,      \* per thread: its begin acquired the mutex and started an entry
  owner,      \* the thread whose begin started the entry in progress, 0 if none
  output,     \* everything written so far
  race        \* threads inside usbi_debug_allocator_allocate at the same time:
              \* per thread its position, its local entry and the entries it
              \* has linked; whether two requests have overlapped

avars == << heap, asize, first, last, crashed, live, req, nreq, frr >>
wvars == << wpc, wentry, walkinfo, wa0, wcalls >>
vars == << heap, asize, first, last, crashed, live, req, nreq, frr,
           wpc, wentry, walkinfo, wa0, wcalls, dreq,
           backend, log, tpc, targ, tcount, ninit, tmine, owner, output,
           race >>
lvars == << backend, log, tpc, targ, tcount, ninit, tmine, owner, output,
            race >>
mvars == << heap, asize, first, last, crashed, live, req, nreq, frr,
            wpc, wentry, walkinfo, wa0, wcalls, dreq, race >>

ZeroEntry ==
  [prev |-> NULL, next |-> NULL, label |-> "", file |-> "", func |-> "",
   line |-> 0, stamp |-> 0, head |-> 0, count |-> 0, size |-> 0]

NoReq ==
  [kind |-> "none", mem |-> NULL,
   call |-> "none", failed |-> FALSE, moved |-> FALSE,
   uaf |-> FALSE, ret |-> NULL, wrap |-> FALSE,
   preFirst |-> NULL, preLast |-> NULL, preCount |-> 0]

Allocated == { a \in Addr : asize[a] > 0 }
FreeAddr == { a \in Addr : asize[a] = 0 }

\* ------------------------------------------------------- registry helpers
\* the first..last traversal: follow next from e, at most n entries
RECURSIVE ChainFrom(_, _, _)
ChainFrom(h, e, n) ==
  IF e = NULL \/ n = 0 \/ e \notin Addr THEN << >>
  ELSE << e >> \o ChainFrom(h, h[e].next, n - 1)

\* the last..first traversal: follow prev from e, at most n entries
RECURSIVE BackFrom(_, _, _)
BackFrom(h, e, n) ==
  IF e = NULL \/ n = 0 \/ e \notin Addr THEN << >>
  ELSE << e >> \o BackFrom(h, h[e].prev, n - 1)

Traversal == ChainFrom(heap, first, MaxBlocks + 1)

\* ------------------------------------------------------ registry operations
\* A memory state m is [heap, first, last, touched]; touched collects the
\* entry addresses the operation dereferences.
MemState == [heap |-> heap, first |-> first, last |-> last, touched |-> {}]

usbi_pool_link(m, entry) ==
  [heap    |-> [m.heap EXCEPT ![entry].next = NULL, ![entry].prev = m.last],
   first   |-> IF m.first = NULL THEN entry ELSE m.first,
   last    |-> entry,
   touched |-> m.touched \cup {entry}]

usbi_pool_unlink(m, entry) ==
  LET p  == m.heap[entry].prev
      h1 == IF p # NULL THEN [m.heap EXCEPT ![p].next = m.heap[entry].next]
                        ELSE m.heap
      f1 == IF p # NULL THEN m.first ELSE m.heap[entry].next
      n  == h1[entry].next
      h2 == IF n # NULL THEN [h1 EXCEPT ![n].prev = h1[entry].prev] ELSE h1
      l2 == IF n # NULL THEN m.last ELSE h1[entry].prev
  IN  [heap    |-> [h2 EXCEPT ![entry].prev = NULL, ![entry].next = NULL],
       first   |-> f1,
       last    |-> l2,
       touched |-> m.touched \cup ({entry, p, n} \ {NULL})]

usbi_pool_relink(m, entry) ==
  LET p  == m.heap[entry].prev
      h1 == IF p # NULL THEN [m.heap EXCEPT ![p].next = entry] ELSE m.heap
      f1 == IF p # NULL THEN m.first ELSE entry
      n  == h1[entry].next
      h2 == IF n # NULL THEN [h1 EXCEPT ![n].prev = entry] ELSE h1
      l2 == IF n # NULL THEN m.last ELSE entry
  IN  [heap    |-> h2,
       first   |-> f1,
       last    |-> l2,
       touched |-> m.touched \cup ({entry, p, n} \ {NULL})]

\* ------------------------------------------------- debug tracking backend
\* size_t total = head + (count * size) + sizeof(usbi_pool_entry);
DebugTotal(head, count, size) ==
  (head + count * size + sizeof_usbi_pool_entry) % SIZE_MOD

\* the caller's view of the blocks it holds after a request, by the
\* documented contract: a returned block is held, a released block is not,
\* and a block whose resize returned NULL is still held
NewLive(r) ==
  CASE r.kind = "fresh"   -> IF r.ret # NULL THEN Append(live, r.ret) ELSE live
    [] r.kind = "release" -> SelectSeq(live, LAMBDA x : x # r.mem)
    [] r.kind = "resize"  -> IF r.ret # NULL
                             THEN [i \in DOMAIN live |->
                                     IF live[i] = r.mem THEN r.ret ELSE live[i]]
                             ELSE live
    [] OTHER              -> live

NewReq(mem, head, count, size) ==
  [NoReq EXCEPT !.kind = RequestKind(mem, head, count, size),
                !.mem = mem,
                !.wrap = (MathTotal(head, count, size) + sizeof_usbi_pool_entry
                            >= SIZE_MOD),
                !.preFirst = first, !.preLast = last,
                !.preCount = Len(Traversal)]

\* The request ends: either the writes took effect, or (only when an address
\* outside the valid set was dereferenced) the access was detected and the
\* process died.
Outcome(m, asz, valid, r) ==
  LET uaf == ~(m.touched \subseteq valid) IN
  /\ nreq' = nreq + 1
  /\ frr' = (frr /\ r.kind \in {"fresh", "resize", "release"} /\ ~r.wrap)
  /\ \/ /\ heap' = m.heap
        /\ first' = m.first
        /\ last' = m.last
        /\ asize' = asz
        /\ crashed' = FALSE
        /\ req' = [r EXCEPT !.uaf = uaf]
        /\ live' = NewLive(r)
     \/ /\ uaf
        /\ crashed' = TRUE
        /\ req' = [r EXCEPT !.uaf = TRUE, !.ret = NULL]
        /\ UNCHANGED << heap, first, last, asize, live >>

CallerMem == {NULL} \cup { live[i] : i \in DOMAIN live }

CanRequest == ~crashed /\ wpc = "idle" /\ nreq < MaxReq

\* total == 0, mem == NULL: nothing is done, NULL is returned
DebugNoOp(mem, head, count, size) ==
  /\ CanRequest
  /\ DebugTotal(head, count, size) = 0
  /\ mem = NULL
  /\ Outcome(MemState, asize, Allocated, NewReq(mem, head, count, size))
  /\ UNCHANGED << wvars, dreq, lvars >>

\* total == 0, mem != NULL: unlink the entry and free it
DebugFree(mem, head, count, size) ==
  /\ CanRequest
  /\ DebugTotal(head, count, size) = 0
  /\ mem # NULL
  /\ LET ptr == USBI_MEM_TO_ENTRY(mem)
         m   == usbi_pool_unlink(MemState, ptr)
         r   == [NewReq(mem, head, count, size) EXCEPT !.call = "free"]
     IN  Outcome(m, [asize EXCEPT ![ptr] = 0], Allocated, r)
  /\ UNCHANGED << wvars, dreq, lvars >>

\* a variant of ReallocFailed in which the failure drops the entry from the
\* registry
ReallocFailed_unlinks(ptr) == usbi_pool_unlink(MemState, ptr)

\* ret = realloc(ptr, total) returned NULL: if( ret ) is not entered
ReallocFailed(ptr) == [MemState EXCEPT !.touched = {ptr}]

\* a variant of ReallocInPlace that relinks the entry although it did not move
ReallocInPlace_relinks(ptr) == usbi_pool_relink(MemState, ptr)

\* ret = realloc(ptr, total) returned ptr: if( ret != ptr ) is not entered
ReallocInPlace(ptr) == [MemState EXCEPT !.touched = {ptr}]

\* total != 0, mem != NULL: realloc fails, resizes in place, or moves
DebugRealloc(mem, head, count, size) ==
  /\ CanRequest
  /\ DebugTotal(head, count, size) # 0
  /\ mem # NULL
  /\ LET ptr   == USBI_MEM_TO_ENTRY(mem)
         total == DebugTotal(head, count, size)
         r     == [NewReq(mem, head, count, size) EXCEPT
                     !.call = "realloc"]
     IN  \/ \* realloc returns NULL (also: ptr is not a live provider block)
            Outcome(ReallocFailed(ptr), asize, Allocated,
                    [r EXCEPT !.failed = TRUE])
         \/ \* resized in place
            /\ ptr \in Allocated
            /\ Outcome(ReallocInPlace(ptr), [asize EXCEPT ![ptr] = total],
                       Allocated, [r EXCEPT !.ret = USBI_ENTRY_TO_MEM(ptr)])
         \/ \* moved to a free address q; contents are copied
            /\ ptr \in Allocated
            /\ \E q \in FreeAddr :
                 LET asz == [asize EXCEPT ![ptr] = 0, ![q] = total]
                     m0  == [MemState EXCEPT !.heap = [heap EXCEPT ![q] = heap[ptr]]]
                     m   == usbi_pool_relink(m0, q)
                 IN  Outcome(m, asz, { a \in Addr : asz[a] > 0 },
                             [r EXCEPT !.ret = USBI_ENTRY_TO_MEM(q),
                                       !.moved = TRUE])
  /\ UNCHANGED << wvars, dreq, lvars >>

\* total != 0, mem == NULL: malloc, fill in the entry, link it
DebugMalloc(prov, mem, head, count, size) ==
  /\ CanRequest
  /\ DebugTotal(head, count, size) # 0
  /\ mem = NULL
  /\ LET total == DebugTotal(head, count, size)
         r     == [NewReq(mem, head, count, size) EXCEPT
                     !.call = "malloc"]
     IN  \/ Outcome(MemState, asize, Allocated, [r EXCEPT !.failed = TRUE])
         \/ \E q \in FreeAddr :
              LET e  == [ZeroEntry EXCEPT
                           !.prev = heap[q].prev, !.next = heap[q].next,
                           !.label = prov.label, !.file = prov.file,
                           !.func = prov.func, !.line = prov.line,
                           !.stamp = prov.stamp, !.head = head,
                           !.count = count, !.size = size]
                  m0 == [MemState EXCEPT !.heap = [heap EXCEPT ![q] = e]]
                  m  == usbi_pool_link(m0, q)
              IN  Outcome(m, [asize EXCEPT ![q] = total], Allocated \cup {q},
                          [r EXCEPT !.ret = USBI_ENTRY_TO_MEM(q)])
  /\ UNCHANGED << wvars, dreq, lvars >>

\* label, file, func, line and stamp are read by the malloc branch only
usbi_debug_allocator_allocate ==
  \E mem \in CallerMem, t \in SizeTriples :
    \/ DebugNoOp(mem, t[1], t[2], t[3])
    \/ DebugFree(mem, t[1], t[2], t[3])
    \/ DebugRealloc(mem, t[1], t[2], t[3])
    \/ \E prov \in Provenance : DebugMalloc(prov, mem, t[1], t[2], t[3])

\* --------------------------------------------------------------------- walk
\* a variant of Visit that is shown the entry's head and count exchanged
Visit_swapped(info, e, mem) ==
  Append(info, [label |-> e.label, file |-> e.file, func |-> e.func,
                line |-> e.line, stamp |-> e.stamp, mem |-> mem,
                head |-> e.count, count |-> e.head, size |-> e.size])

\* the visitor of the model records what it is shown
Visit(info, e, mem) ==
  Append(info, [label |-> e.label, file |-> e.file, func |-> e.func,
                line |-> e.line, stamp |-> e.stamp, mem |-> mem,
                head |-> e.head, count |-> e.count, size |-> e.size])

\* the initial accumulator a caller passes
WalkInfos == { << "a0" >> }

\* a variant of WalkStart that begins the walk at the tail
WalkStart_last == last

\* usbi_pool_entry * entry = pool->first;
WalkStart == first

WalkBegin ==
  /\ ~crashed /\ wpc = "idle" /\ nreq > 0
  /\ wpc' = "loop"
  /\ wentry' = WalkStart
  /\ \E a0 \in WalkInfos : walkinfo' = a0 /\ wa0' = a0
  /\ wcalls' = << >>
  /\ UNCHANGED << avars, dreq, lvars >>

\* one iteration of while( entry ) { walkinfo = visit(...); entry = entry->next; }
WalkVisit ==
  /\ ~crashed /\ wpc = "loop" /\ wentry # NULL
  /\ Len(wcalls) < MaxWalk
  /\ \/ /\ walkinfo' = Visit(walkinfo, heap[wentry], USBI_ENTRY_TO_MEM(wentry))
        /\ wcalls' = Append(wcalls, [arg |-> walkinfo, entry |-> wentry,
                                     ret |-> walkinfo'])
        /\ wentry' = heap[wentry].next
        /\ UNCHANGED << wpc, wa0, avars, dreq, lvars >>
     \/ /\ wentry \notin Allocated
        /\ crashed' = TRUE
        /\ UNCHANGED << heap, asize, first, last, live, req, nreq, frr, wvars, dreq,
                        lvars >>

\* the loop ends and walk returns walkinfo
WalkReturn ==
  /\ ~crashed /\ wpc = "loop" /\ wentry = NULL
  /\ wpc' = "done"
  /\ UNCHANGED << wentry, walkinfo, wa0, wcalls, avars, dreq, lvars >>

\* the caller takes the result; the next request or walk may start
WalkDone ==
  /\ wpc = "done"
  /\ wpc' = "idle"
  /\ wentry' = NULL /\ walkinfo' = << >> /\ wa0' = << >> /\ wcalls' = << >>
  /\ UNCHANGED << avars, dreq, lvars >>

usbi_debug_allocator_walk == WalkBegin \/ WalkVisit \/ WalkReturn \/ WalkDone

\* ---------------------------------------------------- pass-through backend
\* <<head, count, size>> triples passed to the pass-through backend
DefaultTriples ==
  { <<0, 0, 0>>, <<16, 0, 0>>, <<0, 1, 16>>, <<16, 1, 16>>,
    <<0, 2, SIZE_MOD \div 2>> }

\* the pool arguments a caller passes
Pools == { NULL, 1 }

NoDefaultReq ==
  [kind |-> "none", pool |-> NULL, prov |-> CHOOSE p \in Provenance : TRUE,
   mem |-> NULL, head |-> 0, count |-> 0, size |-> 0,
   call |-> "none", ptr |-> NULL, bytes |-> 0, failed |-> FALSE, ret |-> NULL]

NewDefaultReq(pool, prov, mem, head, count, size) ==
  [NoDefaultReq EXCEPT !.kind = RequestKind(mem, head, count, size),
                       !.pool = pool, !.prov = prov, !.mem = mem,
                       !.head = head, !.count = count, !.size = size]

\* a variant of DefaultTotal in which the header size is left out
DefaultTotal_noHead(head, count, size) == (count * size) % SIZE_MOD

\* size_t total = head + (count * size);
DefaultTotal(head, count, size) == (head + count * size) % SIZE_MOD

\* the request returns; an invalid pointer handed to the provider is either
\* detected (the process dies) or ignored
DefaultOutcome(r, asz, valid) ==
  /\ nreq' = nreq + 1
  /\ \/ /\ dreq' = r
        /\ asize' = asz
        /\ live' = NewLive(r)
        /\ crashed' = FALSE
     \/ /\ ~valid
        /\ crashed' = TRUE
        /\ dreq' = r
        /\ UNCHANGED << asize, live >>
  /\ UNCHANGED << heap, first, last, req, frr, wvars, lvars >>

\* if( total == 0 ) { if( mem ) free( mem ); }  with mem == NULL
DefaultNoOp(pool, prov, mem, head, count, size) ==
  /\ CanRequest
  /\ DefaultTotal(head, count, size) = 0
  /\ mem = NULL
  /\ DefaultOutcome(NewDefaultReq(pool, prov, mem, head, count, size),
                    asize, TRUE)

\* if( total == 0 ) { if( mem ) free( mem ); }  with mem != NULL
DefaultFree(pool, prov, mem, head, count, size) ==
  /\ CanRequest
  /\ DefaultTotal(head, count, size) = 0
  /\ mem # NULL
  /\ DefaultOutcome([NewDefaultReq(pool, prov, mem, head, count, size) EXCEPT
                       !.call = "free", !.ptr = mem],
                    IF mem \in Allocated THEN [asize EXCEPT ![mem] = 0]
                                         ELSE asize,
                    mem \in Allocated)

\* else if( mem ) ret = realloc(mem, total);
DefaultRealloc(pool, prov, mem, head, count, size) ==
  /\ CanRequest
  /\ DefaultTotal(head, count, size) # 0
  /\ mem # NULL
  /\ LET total == DefaultTotal(head, count, size)
         r     == [NewDefaultReq(pool, prov, mem, head, count, size) EXCEPT
                     !.call = "realloc", !.ptr = mem, !.bytes = total]
     IN  \/ DefaultOutcome([r EXCEPT !.failed = TRUE], asize,
                           mem \in Allocated)
         \/ /\ mem \in Allocated
            /\ DefaultOutcome([r EXCEPT !.ret = mem],
                              [asize EXCEPT ![mem] = total], TRUE)
         \/ /\ mem \in Allocated
            /\ \E q \in FreeAddr :
                 DefaultOutcome([r EXCEPT !.ret = q],
                                [asize EXCEPT ![mem] = 0, ![q] = total], TRUE)

\* else ret = malloc(total);
DefaultMalloc(pool, prov, mem, head, count, size) ==
  /\ CanRequest
  /\ DefaultTotal(head, count, size) # 0
  /\ mem = NULL
  /\ LET total == DefaultTotal(head, count, size)
         r     == [NewDefaultReq(pool, prov, mem, head, count, size) EXCEPT
                     !.call = "malloc", !.bytes = total]
     IN  \/ DefaultOutcome([r EXCEPT !.failed = TRUE], asize, TRUE)
         \/ \E q \in FreeAddr :
              DefaultOutcome([r EXCEPT !.ret = q],
                             [asize EXCEPT ![q] = total], TRUE)

usbi_default_allocator_allocate ==
  \E pool \in Pools, prov \in Provenance, mem \in CallerMem,
     t \in DefaultTriples :
    \/ DefaultNoOp(pool, prov, mem, t[1], t[2], t[3])
    \/ DefaultFree(pool, prov, mem, t[1], t[2], t[3])
    \/ DefaultRealloc(pool, prov, mem, t[1], t[2], t[3])
    \/ DefaultMalloc(pool, prov, mem, t[1], t[2], t[3])

\* usbi_default_allocator_allocate as a function of the provider's state:
\* the set of its possible results [asize, ret, freed, valid].  freed: free()
\* was called on mem; valid: the pointer handed to free or realloc was a
\* block the provider had allocated.
DefaultCall(asz, mem, head, count, size) ==
  LET total == DefaultTotal(head, count, size)
      alloc == { a \in Addr : asz[a] > 0 }
      free  == { a \in Addr : asz[a] = 0 }
  IN  IF total = 0
      THEN IF mem = NULL
           THEN { [asize |-> asz, ret |-> NULL, freed |-> FALSE, valid |-> TRUE] }
           ELSE { [asize |-> IF mem \in alloc THEN [asz EXCEPT ![mem] = 0]
                                              ELSE asz,
                   ret |-> NULL, freed |-> TRUE, valid |-> mem \in alloc] }
      ELSE IF mem # NULL
           THEN { [asize |-> asz, ret |-> NULL, freed |-> FALSE,
                   valid |-> mem \in alloc] }
                \cup (IF mem \notin alloc THEN {} ELSE
                        { [asize |-> [asz EXCEPT ![mem] = total], ret |-> mem,
                           freed |-> FALSE, valid |-> TRUE] }
                        \cup { [asize |-> [asz EXCEPT ![mem] = 0, ![q] = total],
                                ret |-> q, freed |-> FALSE, valid |-> TRUE] :
                               q \in free })
           ELSE { [asize |-> asz, ret |-> NULL, freed |-> FALSE, valid |-> TRUE] }
                \cup { [asize |-> [asz EXCEPT ![q] = total], ret |-> q,
                        freed |-> FALSE, valid |-> TRUE] : q \in free }

\* the caller's view after reallocf, by its contract: a returned block
\* replaces mem, and after NULL mem is no longer held
ReallocfLive(mem, ret) ==
  IF ret = NULL THEN SelectSeq(live, LAMBDA x : x # mem)
  ELSE IF mem = NULL THEN Append(live, ret)
  ELSE [i \in DOMAIN live |-> IF live[i] = mem THEN ret ELSE live[i]]

\* usbi_allocator_reallocf on the pass-through backend:
\*   ret = allocate(mem, head, count, size);
\*   if( !ret ) allocate(mem, 0, 0, 0);
\*   return ret;
\* dreq records the call, with frees = the number of free(mem) calls made.
Reallocf(pool, prov, mem, head, count, size) ==
  /\ CanRequest
  /\ \E o1 \in DefaultCall(asize, mem, head, count, size) :
       \E o2 \in (IF o1.ret # NULL THEN { [o1 EXCEPT !.freed = FALSE] }
                   ELSE DefaultCall(o1.asize, mem, 0, 0, 0)) :
         LET r == [NewDefaultReq(pool, prov, mem, head, count, size) EXCEPT
                     !.call = "reallocf", !.ptr = mem, !.ret = o1.ret,
                     !.failed = (o1.ret = NULL)]
                  @@ [frees |-> (IF o1.freed THEN 1 ELSE 0)
                                + (IF o2.freed THEN 1 ELSE 0)]
         IN  /\ nreq' = nreq + 1
             /\ dreq' = r
             /\ \/ /\ asize' = o2.asize
                   /\ live' = ReallocfLive(mem, o1.ret)
                   /\ crashed' = FALSE
                \/ /\ ~(o1.valid /\ o2.valid)
                   /\ crashed' = TRUE
                   /\ UNCHANGED << asize, live >>
  /\ UNCHANGED << heap, first, last, req, frr, wvars, lvars >>

usbi_allocator_reallocf ==
  \E pool \in Pools, prov \in Provenance, mem \in CallerMem,
     t \in DefaultTriples :
    Reallocf(pool, prov, mem, t[1], t[2], t[3])

\* ------------------------------------------------------------------ logger
LIBUSB_LOG_LEVEL_NONE == 0
LIBUSB_LOG_LEVEL_ERROR == 1
LIBUSB_LOG_LEVEL_WARNING == 2
LIBUSB_LOG_LEVEL_INFO == 3
LIBUSB_LOG_LEVEL_DEBUG == 4
LIBUSB_LOG_LEVEL_TRACE == 5
LogLevels == LIBUSB_LOG_LEVEL_NONE .. LIBUSB_LOG_LEVEL_TRACE

ANDROID_LOG_UNKNOWN == 0
ANDROID_LOG_DEBUG == 3
ANDROID_LOG_INFO == 4
ANDROID_LOG_WARN == 5
ANDROID_LOG_ERROR == 6

USBI_ANDROID_BUFFER_SIZE == USBI_MAX_LOG_LEN

Threads == 1 .. NThreads

libusb_log_level_str(level) ==
  CASE level = LIBUSB_LOG_LEVEL_NONE    -> "none"
    [] level = LIBUSB_LOG_LEVEL_ERROR   -> "error"
    [] level = LIBUSB_LOG_LEVEL_WARNING -> "warning"
    [] level = LIBUSB_LOG_LEVEL_INFO    -> "info"
    [] level = LIBUSB_LOG_LEVEL_DEBUG   -> "debug"
    [] level = LIBUSB_LOG_LEVEL_TRACE   -> "trace"
    [] OTHER                            -> "unknown"

\* static usbi_default_logger_log default_log = { ... };
default_log ==
  [mutex |-> 0, level |-> LIBUSB_LOG_LEVEL_NONE, header |-> FALSE,
   started |-> FALSE, stream |-> "NULL"]

\* static usbi_android_logger_log android_log = { ... };
android_log ==
  [mutex |-> 0, level |-> LIBUSB_LOG_LEVEL_NONE, started |-> FALSE,
   prio |-> 0, buffer |-> [i \in 0 .. USBI_ANDROID_BUFFER_SIZE - 1 |-> 0],
   space |-> USBI_ANDROID_BUFFER_SIZE, ptr |-> -1, overrun |-> FALSE]

\* a write has left the buffer: space and ptr, which lie behind it in the
\* structure, are overwritten and the logger is followed no further
Overrun == backend = "android" /\ log.overrun

NoBegin == [level |-> 0, func |-> "", stamp |-> 0]

\* the function names and timestamps begin is called with
Funcs == { "f" }
Stamps == { 7 }

\* what thread t formats in one extend call: one or two characters that
\* name the thread
Texts(t) == { << t >>, << t, t >> }

\* one write to a stream (or to the platform log) by thread by, while the
\* entry in progress was the one started by thread during.  kind names what
\* is written: "header1", "header2", "stamp" (timestamp and thread id),
\* "prefix" (level name and function), "text" (an extend's content), "nl"
\* (the line terminator) or "log" (the buffered text and its priority).
Write(stream, kind, text, by) ==
  [stream |-> stream, kind |-> kind, level |-> "", func |-> "", stamp |-> 0,
   tid |-> 0, prio |-> 0, text |-> text, by |-> by, during |-> owner]

\* the C string stored at the start of buf
RECURSIVE CString(_, _)
CString(buf, i) ==
  IF i \notin DOMAIN buf \/ buf[i] = 0 THEN << >>
  ELSE << buf[i] >> \o CString(buf, i + 1)

\* usbi_bufprintf on (buffer, ptr, space): the result is
\* [buffer, ptr, space, ret, wrote], wrote being the places written to,
\* inside the buffer or behind it
usbi_bufprintf_body(buf, out, len, text, stored) ==
  LET n0 == Len(text)                 \* vsnprintf's return value
      b1 == [i \in DOMAIN buf |->
               IF i >= out /\ i < out + stored THEN text[i - out + 1]
               ELSE IF i = out + stored THEN 0
               ELSE buf[i]]
      n  == IF n0 >= len THEN len - 1 ELSE n0
  IN  [buffer |-> b1, ptr |-> out + n, space |-> len - n,
       ret |-> (n0 >= len), wrote |-> out .. out + stored]

usbi_bufprintf(buf, out, len, text) ==
  IF len = 0
  THEN [buffer |-> buf, ptr |-> out, space |-> len, ret |-> TRUE, wrote |-> {}]
  ELSE usbi_bufprintf_body(buf, out, len, text,
                           IF Len(text) >= len THEN len - 1 ELSE Len(text))

\* int is half as wide as size_t where the two differ
INT_MOD == 2 ^ (SIZE_BITS \div 2)

\* usbi_bufprintf(&log->ptr, &log->space, ...): space is an int read and
\* written through a size_t pointer.  Where size_t is as wide as int the
\* value read is space; where it is wider the read takes in the bytes
\* behind space as its upper half, and is space only if they are zero.
SeenLen(space) == { space, space + INT_MOD }

\* the calls made so far by all threads together
RECURSIVE SumCalls(_, _)
SumCalls(f, n) == IF n = 0 THEN 0 ELSE f[n] + SumCalls(f, n - 1)

Begins == SumCalls([t \in Threads |-> tcount[t].begins], NThreads)
Extends == SumCalls([t \in Threads |-> tcount[t].extends], NThreads)

\* a variant of BeginCheck without the level test: only an entry in progress
\* suppresses
BeginCheck_noLevelTest(t, level, func, stamp) ==
  /\ tpc[t] = "idle"
  /\ ~Overrun
  /\ Begins < MaxEntries
  /\ tcount' = [tcount EXCEPT ![t] = [begins |-> @.begins + 1, extends |-> @.extends]]
  /\ tmine' = [tmine EXCEPT ![t] = FALSE]
  /\ targ' = IF level > log.level THEN targ
             ELSE [targ EXCEPT ![t] =
                     [level |-> level, func |-> func, stamp |-> stamp]]
  /\ tpc' = [tpc EXCEPT ![t] = IF log.started THEN "entry" ELSE "lock"]
  /\ UNCHANGED << backend, log, ninit, owner, output, mvars >>

\* a variant of BeginCheck in which an entry in progress does not suppress:
\* the caller goes on to wait for the mutex
BeginCheck_queues(t, level, func, stamp) ==
  /\ tpc[t] = "idle"
  /\ ~Overrun
  /\ Begins < MaxEntries
  /\ tcount' = [tcount EXCEPT ![t] = [begins |-> @.begins + 1, extends |-> @.extends]]
  /\ tmine' = [tmine EXCEPT ![t] = FALSE]
  /\ targ' = IF level > log.level THEN targ
             ELSE [targ EXCEPT ![t] =
                     [level |-> level, func |-> func, stamp |-> stamp]]
  /\ tpc' = [tpc EXCEPT ![t] = IF level > log.level THEN "entry" ELSE "lock"]
  /\ UNCHANGED << backend, log, ninit, owner, output, mvars >>

\* begin, up to the decision: if( level > log->level || log->started ) return;
\* targ keeps the arguments of a call that passed the level test; n bounds
\* the begin calls made by all threads together.
BeginCheckUpTo(t, level, func, stamp, n) ==
  /\ tpc[t] = "idle"
  /\ ~Overrun
  /\ Begins < n
  /\ tcount' = [tcount EXCEPT ![t] = [begins |-> @.begins + 1, extends |-> @.extends]]
  /\ tmine' = [tmine EXCEPT ![t] = FALSE]
  /\ targ' = IF level > log.level THEN targ
             ELSE [targ EXCEPT ![t] =
                     [level |-> level, func |-> func, stamp |-> stamp]]
  /\ tpc' = [tpc EXCEPT ![t] = IF level > log.level \/ log.started
                               THEN "entry" ELSE "lock"]
  /\ UNCHANGED << backend, log, ninit, owner, output, mvars >>

\* begin, with at most MaxEntries calls
BeginCheck(t, level, func, stamp) ==
  BeginCheckUpTo(t, level, func, stamp, MaxEntries)

\* a variant of ConsoleBegin that writes the prefix before the timestamp
ConsoleBegin_prefixFirst(t) ==
  LET level  == targ[t].level
      stream == IF level <= LIBUSB_LOG_LEVEL_WARNING THEN "stderr" ELSE "stdout"
      hdr    == IF level >= LIBUSB_LOG_LEVEL_DEBUG /\ ~log.header
                THEN << Write(stream, "header1", << >>, t),
                        Write(stream, "header2", << >>, t) >>
                ELSE << >>
      ts     == IF level >= LIBUSB_LOG_LEVEL_DEBUG
                THEN << [Write(stream, "stamp", << >>, t) EXCEPT
                           !.stamp = targ[t].stamp, !.tid = t] >>
                ELSE << >>
      pfx    == << [Write(stream, "prefix", << >>, t) EXCEPT
                           !.level = libusb_log_level_str(level),
                           !.func = targ[t].func] >>
  IN  /\ log' = [log EXCEPT !.mutex = t, !.started = TRUE, !.stream = stream,
                            !.header = (@ \/ level >= LIBUSB_LOG_LEVEL_DEBUG)]
      /\ output' = output \o [i \in 1 .. Len(hdr \o pfx \o ts) |->
                                [(hdr \o pfx \o ts)[i] EXCEPT !.during = t]]

\* usbi_default_logger_entry_begin from usbi_mutex_lock on
ConsoleBegin(t) ==
  LET level  == targ[t].level
      stream == IF level <= LIBUSB_LOG_LEVEL_WARNING THEN "stderr" ELSE "stdout"
      hdr    == IF level >= LIBUSB_LOG_LEVEL_DEBUG /\ ~log.header
                THEN << Write(stream, "header1", << >>, t),
                        Write(stream, "header2", << >>, t) >>
                ELSE << >>
      ts     == IF level >= LIBUSB_LOG_LEVEL_DEBUG
                THEN << [Write(stream, "stamp", << >>, t) EXCEPT
                           !.stamp = targ[t].stamp, !.tid = t] >>
                ELSE << >>
      pfx    == << [Write(stream, "prefix", << >>, t) EXCEPT
                           !.level = libusb_log_level_str(level),
                           !.func = targ[t].func] >>
  IN  /\ log' = [log EXCEPT !.mutex = t, !.started = TRUE, !.stream = stream,
                            !.header = (@ \/ level >= LIBUSB_LOG_LEVEL_DEBUG)]
      /\ output' = output \o [i \in 1 .. Len(hdr \o ts \o pfx) |->
                                [(hdr \o ts \o pfx)[i] EXCEPT !.during = t]]

\* usbi_android_logger_entry_begin from usbi_mutex_lock on
AndroidBegin(t) ==
  LET level == targ[t].level
      prio  == CASE level = LIBUSB_LOG_LEVEL_INFO    -> ANDROID_LOG_INFO
                 [] level = LIBUSB_LOG_LEVEL_WARNING -> ANDROID_LOG_WARN
                 [] level = LIBUSB_LOG_LEVEL_ERROR   -> ANDROID_LOG_ERROR
                 [] level = LIBUSB_LOG_LEVEL_DEBUG   -> ANDROID_LOG_DEBUG
                 [] level = LIBUSB_LOG_LEVEL_TRACE   -> ANDROID_LOG_DEBUG
                 [] OTHER                            -> ANDROID_LOG_UNKNOWN
  IN  /\ log' = [log EXCEPT !.mutex = t, !.started = TRUE,
                            !.space = USBI_ANDROID_BUFFER_SIZE,
                            !.buffer = [@ EXCEPT ![0] = 0],
                            !.ptr = 0, !.prio = prio]
      /\ UNCHANGED output

\* begin, once the mutex is free: the lock is taken and the entry started
BeginLocked(t) ==
  /\ tpc[t] = "lock"
  /\ ~Overrun
  /\ log.mutex = 0
  /\ IF backend = "console" THEN ConsoleBegin(t) ELSE AndroidBegin(t)
  /\ tpc' = [tpc EXCEPT ![t] = "entry"]
  /\ tmine' = [tmine EXCEPT ![t] = TRUE]
  /\ owner' = t
  /\ UNCHANGED << backend, targ, tcount, ninit, mvars >>

\* extend: if( !log->started ) return; then the text is written or buffered
Extend(t, text) ==
  /\ tpc[t] = "entry"
  /\ ~Overrun
  /\ Extends < MaxExtend
  /\ tcount' = [tcount EXCEPT ![t].extends = @ + 1]
  /\ IF ~log.started
     THEN UNCHANGED << log, output >>
     ELSE IF backend = "console"
     THEN /\ output' = Append(output, Write(log.stream, "text", text, t))
          /\ UNCHANGED log
     ELSE /\ IF log.space = 0
             THEN UNCHANGED log
             ELSE \E len \in SeenLen(log.space) :
                    LET r == usbi_bufprintf(log.buffer, log.ptr, len, text)
                    IN  log' = IF r.wrote \subseteq DOMAIN log.buffer
                               THEN [log EXCEPT !.buffer = r.buffer,
                                                !.ptr = r.ptr,
                                                !.space = r.space - (len - log.space)]
                               ELSE [log EXCEPT !.buffer = r.buffer,
                                                !.overrun = TRUE]
          /\ UNCHANGED output
  /\ UNCHANGED << backend, tpc, targ, ninit, tmine, owner, mvars >>

\* end: if( !log->started ) return; the line is finished, started is
\* cleared and the mutex unlocked.  Unlocking a mutex the caller does not
\* hold either releases it or is refused.
End(t) ==
  /\ tpc[t] = "entry"
  /\ ~Overrun
  /\ tpc' = [tpc EXCEPT ![t] = "idle"]
  /\ tmine' = [tmine EXCEPT ![t] = FALSE]
  /\ IF ~log.started
     THEN UNCHANGED << log, output, owner >>
     ELSE /\ output' = Append(output,
                IF backend = "console"
                THEN Write(log.stream, "nl", << >>, t)
                ELSE [Write("android", "log", CString(log.buffer, 0), t)
                        EXCEPT !.prio = log.prio])
          /\ owner' = 0
          /\ \/ log' = [log EXCEPT !.started = FALSE, !.mutex = 0]
             \/ /\ log.mutex # t
                /\ log' = [log EXCEPT !.started = FALSE]
  /\ UNCHANGED << backend, targ, tcount, ninit, mvars >>

\* usbi_default_logger_init: log->header = false.  The buffered logger's
\* init member is NULL: there is nothing to call for it.
usbi_default_logger_init ==
  /\ backend = "console"
  /\ ninit < MaxInit
  /\ ninit' = ninit + 1
  /\ log' = [log EXCEPT !.header = FALSE]
  /\ UNCHANGED << backend, tpc, targ, tcount, tmine, owner, output, mvars >>

\* log->level as get_level returns it
get_level == log.level

\* usbi_default_logger_set_level and usbi_android_logger_set_level, reached
\* through libusb_logger_set_level: log->data = level.  Neither log structure
\* declares a member data; the store is kept beside the declared members and
\* log->level, which begin and get_level read, is not written.
set_level(level) ==
  /\ ~Overrun
  /\ log' = [m \in DOMAIN log \cup { "data" } |->
               IF m = "data" THEN level ELSE log[m]]
  /\ UNCHANGED << backend, tpc, targ, tcount, ninit, tmine, owner, output, mvars >>

\* libusb_logger_set_level with any level
libusb_logger_set_level == \E level \in LogLevels : set_level(level)

NextLogger ==
  \/ \E t \in Threads :
       \/ \E level \in LogLevels, func \in Funcs, stamp \in Stamps :
            BeginCheck(t, level, func, stamp)
       \/ BeginLocked(t)
       \/ \E text \in Texts(t) : Extend(t, text)
       \/ End(t)
  \/ usbi_default_logger_init

\* the logger's calls with one more begin than MaxEntries, so that a caller
\* can begin after two entries have ended
NextLoggerLive ==
  \/ \E t \in Threads :
       \/ \E level \in LogLevels, func \in Funcs, stamp \in Stamps :
            BeginCheckUpTo(t, level, func, stamp, MaxEntries + 1)
       \/ BeginLocked(t)
       \/ \E text \in Texts(t) : Extend(t, text)
       \/ End(t)
  \/ usbi_default_logger_init

\* a single caller: thread 1 alone makes the calls
NextLoggerOne ==
  \/ \E level \in LogLevels, func \in Funcs, stamp \in Stamps :
       BeginCheck(1, level, func, stamp)
  \/ BeginLocked(1)
  \/ \E text \in Texts(1) : Extend(1, text)
  \/ End(1)
  \/ usbi_default_logger_init

\* a single caller that sets the threshold as well
NextLoggerLevel == NextLoggerOne \/ libusb_logger_set_level

\* ------------------------------------------------------ walk, dispatched
\* static libusb_allocator usbi_default_allocator = { ... }; a member is
\* named by what it points to, "NULL" for a null pointer
usbi_default_allocator ==
  [pool |-> "NULL", allocate |-> "usbi_default_allocator_allocate",
   walk |-> "NULL"]

\* static libusb_allocator usbi_debug_allocator = { ... };
usbi_debug_allocator ==
  [pool |-> "usbi_debug_allocator_pool",
   allocate |-> "usbi_debug_allocator_allocate",
   walk |-> "usbi_debug_allocator_walk"]

\* return allocator->walk(allocator->pool,visitorinfo,visitor); the member is
\* called as it is.  A call through a NULL member has no defined outcome:
\* the process is killed, or it goes on with an arbitrary result.
WalkVia(allocator) ==
  IF allocator.walk = "NULL"
  THEN /\ ~crashed /\ wpc = "idle"
       /\ dreq' = [NoDefaultReq EXCEPT !.kind = "walk", !.call = "NULL"]
       /\ crashed' \in BOOLEAN
       /\ UNCHANGED << heap, asize, first, last, live, req, nreq, frr, wvars, lvars >>
  ELSE WalkBegin

\* usbi_allocator_walk on either built-in allocator
usbi_allocator_walk ==
  \E allocator \in { usbi_default_allocator, usbi_debug_allocator } :
    WalkVia(allocator)

\* requests to the tracking backend and walks of either built-in allocator
NextWalk ==
  \/ usbi_debug_allocator_allocate
  \/ usbi_allocator_walk
  \/ WalkVisit
  \/ WalkReturn
  \/ WalkDone

\* ------------------------------------- the tracking backend, several callers
\* usbi_debug_allocator_pool is one static registry and neither allocate nor
\* link takes a lock: a thread's fresh allocation is followed statement by
\* statement, other threads running in between.
\* requests made by the threads together
MaxRace == 2

NoRace ==
  [thr     |-> [t \in Threads |-> [pc |-> "idle", entry |-> NULL, done |-> << >>]],
   overlap |-> FALSE]

RaceAt(t, pc) == race.thr[t].pc = pc

RaceGoto(t, pc) == race' = [race EXCEPT !.thr[t].pc = pc]

\* allocate with mem == NULL and total != 0: ret = malloc(total), the fields
\* are stored, and usbi_pool_link is entered; a failed malloc returns NULL
RaceMalloc(t, prov, head, count, size) ==
  /\ ~crashed /\ nreq < MaxRace
  /\ RaceAt(t, "idle")
  /\ DebugTotal(head, count, size) # 0
  /\ nreq' = nreq + 1
  /\ \/ UNCHANGED << heap, asize, race >>
     \/ \E q \in FreeAddr :
          /\ asize' = [asize EXCEPT ![q] = DebugTotal(head, count, size)]
          /\ heap' = [heap EXCEPT ![q] =
                        [ZeroEntry EXCEPT
                           !.prev = heap[q].prev, !.next = heap[q].next,
                           !.label = prov.label, !.file = prov.file,
                           !.func = prov.func, !.line = prov.line,
                           !.stamp = prov.stamp, !.head = head,
                           !.count = count, !.size = size]]
          /\ race' = [race EXCEPT
                        !.thr[t].pc = "next", !.thr[t].entry = q,
                        !.overlap = @ \/ \E u \in Threads \ {t} : ~RaceAt(u, "idle")]
  /\ UNCHANGED << first, last, crashed, live, req, frr, wvars, dreq,
                  backend, log, tpc, targ, tcount, ninit, tmine, owner, output >>

\* entry->next = NULL;
LinkNext(t) ==
  /\ RaceAt(t, "next")
  /\ heap' = [heap EXCEPT ![race.thr[t].entry].next = NULL]
  /\ RaceGoto(t, "prev")
  /\ UNCHANGED << asize, first, last, crashed, live, req, nreq, frr, wvars, dreq,
                  backend, log, tpc, targ, tcount, ninit, tmine, owner, output >>

\* entry->prev = pool->last;
LinkPrev(t) ==
  /\ RaceAt(t, "prev")
  /\ heap' = [heap EXCEPT ![race.thr[t].entry].prev = last]
  /\ RaceGoto(t, "last")
  /\ UNCHANGED << asize, first, last, crashed, live, req, nreq, frr, wvars, dreq,
                  backend, log, tpc, targ, tcount, ninit, tmine, owner, output >>

\* a variant of LinkLast that leaves pool->last as it is
LinkLast_skips(t) ==
  /\ RaceAt(t, "last")
  /\ RaceGoto(t, "first")
  /\ UNCHANGED << heap, asize, first, last, crashed, live, req, nreq, frr, wvars,
                  dreq, backend, log, tpc, targ, tcount, ninit, tmine, owner,
                  output >>

\* pool->last = entry;
LinkLast(t) ==
  /\ RaceAt(t, "last")
  /\ last' = race.thr[t].entry
  /\ RaceGoto(t, "first")
  /\ UNCHANGED << heap, asize, first, crashed, live, req, nreq, frr, wvars, dreq,
                  backend, log, tpc, targ, tcount, ninit, tmine, owner, output >>

\* allocate returns USBI_ENTRY_TO_MEM(ret) to its caller
RaceReturn(t) ==
  /\ race' = [race EXCEPT !.thr[t].pc = "idle", !.thr[t].entry = NULL,
                          !.thr[t].done = Append(@, race.thr[t].entry)]
  /\ live' = Append(live, USBI_ENTRY_TO_MEM(race.thr[t].entry))

\* if( !pool->first ): the test; link returns when first is set
LinkTestFirst(t) ==
  /\ RaceAt(t, "first")
  /\ IF first = NULL
       THEN RaceGoto(t, "setfirst") /\ UNCHANGED live
       ELSE RaceReturn(t)
  /\ UNCHANGED << heap, asize, first, last, crashed, req, nreq, frr, wvars, dreq,
                  backend, log, tpc, targ, tcount, ninit, tmine, owner, output >>

\* pool->first = entry; and link returns
LinkSetFirst(t) ==
  /\ RaceAt(t, "setfirst")
  /\ first' = race.thr[t].entry
  /\ RaceReturn(t)
  /\ UNCHANGED << heap, asize, last, crashed, req, nreq, frr, wvars, dreq,
                  backend, log, tpc, targ, tcount, ninit, tmine, owner, output >>

\* fresh allocations by any thread, statement by statement
NextRace ==
  \E t \in Threads :
    \/ \E prov \in Provenance : RaceMalloc(t, prov, 16, 1, 16)
    \/ LinkNext(t)
    \/ LinkPrev(t)
    \/ LinkLast(t)
    \/ LinkTestFirst(t)
    \/ LinkSetFirst(t)

\* what the registry holds: first, last and the links of the given entries
Registry(h, f, l, es) ==
  [first |-> f, last |-> l, links |-> [e \in es |-> << h[e].prev, h[e].next >>]]

\* the entries the threads have linked
RaceDone == UNION { { race.thr[t].done[i] : i \in DOMAIN race.thr[t].done } : t \in Threads }

\* the registries that result from running the threads' requests one after
\* the other, each thread's in its own order, from memory state m on;
\* idx[t] is the number of thread t's requests already run
RECURSIVE SerialFrom(_, _)
SerialFrom(m, idx) ==
  IF \A t \in Threads : idx[t] = Len(race.thr[t].done)
  THEN { Registry(m.heap, m.first, m.last, RaceDone) }
  ELSE UNION { SerialFrom(usbi_pool_link(m, race.thr[t].done[idx[t] + 1]),
                          [idx EXCEPT ![t] = @ + 1]) :
               t \in { u \in Threads : idx[u] < Len(race.thr[u].done) } }

SerialRegistries ==
  SerialFrom([heap |-> [a \in Addr |-> ZeroEntry], first |-> NULL, last |-> NULL,
              touched |-> {}],
             [t \in Threads |-> 0])

\* the allocators after construction: an empty registry, nothing allocated
InitAllocator ==
  /\ heap = [a \in Addr |-> ZeroEntry]
  /\ asize = [a \in Addr |-> 0]
  /\ first = NULL
  /\ last = NULL
  /\ crashed = FALSE
  /\ live = << >>
  /\ req = NoReq
  /\ nreq = 0
  /\ frr = TRUE
  /\ wpc = "idle"
  /\ wentry = NULL
  /\ walkinfo = << >>
  /\ wa0 = << >>
  /\ wcalls = << >>
  /\ dreq = NoDefaultReq
  /\ race = NoRace

\* the logger b after construction: no entry started, nothing written
InitLogger(b) ==
  /\ backend = b
  /\ log = IF backend = "console" THEN default_log ELSE android_log
  /\ tpc = [t \in Threads |-> "idle"]
  /\ targ = [t \in Threads |-> NoBegin]
  /\ tcount = [t \in Threads |-> [begins |-> 0, extends |-> 0]]
  /\ ninit = 0
  /\ tmine = [t \in Threads |-> FALSE]
  /\ owner = 0
  /\ output = << >>

Init == InitAllocator /\ InitLogger("console")

\* either of the two loggers may be the one that is built
InitEitherLogger ==
  InitAllocator /\ \E b \in { "console", "android" } : InitLogger(b)

\* begin, extend and end are handed the logger's data: here its threshold is
\* any level, the rest as constructed
InitLoggerAt ==
  /\ InitAllocator
  /\ \E b \in { "console", "android" }, level \in LogLevels :
       /\ backend = b
       /\ log = [(IF b = "console" THEN default_log ELSE android_log)
                   EXCEPT !.level = level]
       /\ tpc = [t \in Threads |-> "idle"]
       /\ targ = [t \in Threads |-> NoBegin]
       /\ tcount = [t \in Threads |-> [begins |-> 0, extends |-> 0]]
       /\ ninit = 0
       /\ tmine = [t \in Threads |-> FALSE]
       /\ owner = 0
       /\ output = << >>

Next == usbi_debug_allocator_allocate \/ usbi_debug_allocator_walk

Spec == Init /\ [][Next]_vars

\* the pass-through backend alone
NextDefault == usbi_default_allocator_allocate

SpecDefault == Init /\ [][NextDefault]_vars

\* the pass-through backend used through usbi_allocator_reallocf as well
NextReallocf == usbi_default_allocator_allocate \/ usbi_allocator_reallocf

SpecReallocf == Init /\ [][NextReallocf]_vars

\* the allocators walked through usbi_allocator_walk
SpecWalk == Init /\ [][NextWalk]_vars

\* the tracking backend used by NThreads threads
SpecRace == Init /\ [][NextRace]_vars

\* the logger alone, used by NThreads threads
SpecLogger == InitEitherLogger /\ [][NextLogger]_vars

\* fair scheduling: a caller that has begun calls end, and a caller waiting
\* for the mutex gets it if it is free again and again; making a further
\* begin or extend is left to the caller
LoggerFairness ==
  \A t \in Threads : WF_vars(End(t)) /\ SF_vars(BeginLocked(t))

SpecLoggerLive == InitEitherLogger /\ [][NextLoggerLive]_vars /\ LoggerFairness

\* the logger with any threshold in its data
SpecLoggerAt == InitLoggerAt /\ [][NextLogger]_vars

\* the same logger used by a single caller
SpecLoggerOne == InitLoggerAt /\ [][NextLoggerOne]_vars

\* a single caller and the threshold's setter
SpecLoggerLevel == InitLoggerAt /\ [][NextLoggerLevel]_vars

\* =================================================================== claims
\* the entries of the blocks the caller holds, in first-allocation order
LiveEntries == [i \in DOMAIN live |-> USBI_MEM_TO_ENTRY(live[i])]

\* a request has just returned to its caller
Requested == nreq' = nreq + 1 /\ ~crashed'

\* C1: after each fresh-allocation, resize or release request the forward
\* traversal of the registry (from first, following next) visits exactly the
\* live blocks, each once, in first-allocation order.
C1_TraversalVisitsLiveBlocks ==
  (frr /\ ~crashed /\ ~req.uaf) => Traversal = LiveEntries

\* C2: with several threads running begin, extend*, end on one logger, at
\* most one entry is active at a time, and everything written while an entry
\* is in progress (its extend content, its end) comes from the thread that
\* began it, so that each entry's output is one contiguous block.
C2_EntriesNotInterleaved ==
  /\ Cardinality({ t \in Threads : tmine[t] }) <= 1
  /\ \A i \in DOMAIN output :
       /\ output[i].by = output[i].during
       /\ \A j \in DOMAIN output[i].text :
            output[i].text[j] = output[i].during

\* C3: a release request (block given, head = count = size = 0) takes the
\* release path: the provider frees the region, the entry leaves the
\* registry, and NULL is returned.
C3_ReleaseFreesAndReturnsNull ==
  (frr /\ ~crashed /\ req.kind = "release") =>
     /\ req.call = "free"
     /\ req.ret = NULL
     /\ asize[USBI_MEM_TO_ENTRY(req.mem)] = 0
     /\ \A i \in DOMAIN Traversal : Traversal[i] # USBI_MEM_TO_ENTRY(req.mem)

\* C4: a request with no block and total size zero returns NULL and leaves
\* the registry unchanged (same first, same last, same entries).
C4_NoOpLeavesRegistry ==
  [][(Requested /\ req'.kind = "noop") =>
       /\ req'.ret = NULL
       /\ first' = first
       /\ last' = last
       /\ Traversal' = Traversal]_vars

\* C5: a successful fresh allocation immediately followed by the release of
\* the returned block leaves first, last and the number of entries as they
\* were before the allocation.
C5_AllocateReleaseRoundTrip ==
  [][(Requested /\ frr' /\ req.kind = "fresh" /\ req.ret # NULL
        /\ req'.kind = "release" /\ req'.mem = req.ret) =>
       /\ first' = req.preFirst
       /\ last' = req.preLast
       /\ Len(Traversal') = req.preCount]_vars

\* C6: when the provider fails a fresh allocation or a resize, NULL is
\* returned and nothing changes: first, last, every entry's links and fields,
\* and the provider's blocks (a block whose resize failed keeps its address
\* and its entry).
C6_FailurePreservesState ==
  [][(nreq' = nreq + 1 /\ req'.failed) =>
       /\ req'.ret = NULL
       /\ first' = first
       /\ last' = last
       /\ heap' = heap
       /\ asize' = asize]_vars

\* C6 witness: a resize of a tracked block failed while another block was
\* tracked as well
C6_Witness ==
  /\ req.failed /\ req.call = "realloc" /\ ~crashed /\ ~req.uaf
  /\ Len(live) >= 2
  /\ first # NULL /\ last # first

\* C7: when a resize moves a tracked block, the entry keeps its place in the
\* traversal, exactly the links that pointed at the old address point at the
\* new one, and no other link of the registry changes.
C7_RelinkRepairsOnlyNeighbours ==
  [][(Requested /\ frr' /\ req'.kind = "resize" /\ req'.moved /\ ~req'.uaf) =>
       LET old == USBI_MEM_TO_ENTRY(req'.mem)
           new == USBI_MEM_TO_ENTRY(req'.ret)
           Moved(x) == IF x = old THEN new ELSE x
           others == { LiveEntries'[i] : i \in DOMAIN live' } \ {new}
       IN  /\ Traversal' = [i \in DOMAIN Traversal |-> Moved(Traversal[i])]
           /\ first' = Moved(first)
           /\ last' = Moved(last)
           /\ heap'[new].prev = heap[old].prev
           /\ heap'[new].next = heap[old].next
           /\ \A a \in others : /\ heap'[a].prev = Moved(heap[a].prev)
                                /\ heap'[a].next = Moved(heap[a].next)]_vars

\* C8: in every state reached by allocate/resize/release requests the
\* registry is a well-formed doubly linked list.
C8_WellFormedList ==
  (frr /\ ~crashed /\ ~req.uaf) =>
     /\ (first = NULL) <=> (last = NULL)
     /\ first # NULL => heap[first].prev = NULL
     /\ last # NULL => heap[last].next = NULL
     /\ \A i \in DOMAIN live :
          LET e == LiveEntries[i] IN
          /\ heap[e].next # NULL => heap[heap[e].next].prev = e
          /\ heap[e].prev # NULL => heap[heap[e].prev].next = e

\* C9: walk calls visit once for every entry the registry tracks, in the
\* order of the first..next chain, passes a0 to the first call and each
\* call's result to the next, and returns the last result; a0 when the
\* registry is empty.
C9_WalkVisitsEveryEntry ==
  (wpc = "done" /\ frr /\ ~crashed) =>
     /\ Len(wcalls) = Len(Traversal)
     /\ \A i \in DOMAIN wcalls :
          /\ wcalls[i].entry = Traversal[i]
          /\ wcalls[i].arg = (IF i = 1 THEN wa0 ELSE wcalls[i - 1].ret)
          /\ wcalls[i].ret = Visit(wcalls[i].arg, heap[Traversal[i]],
                                   USBI_ENTRY_TO_MEM(Traversal[i]))
     /\ walkinfo = (IF wcalls = << >> THEN wa0 ELSE wcalls[Len(wcalls)].ret)
     /\ { wcalls[i].entry : i \in DOMAIN wcalls } = Allocated

\* C10: the pass-through backend maps a request to one provider action by
\* (total, existing block), total being the size_t value of
\* head + count * size: free, nothing, malloc(total) or realloc(mem, total);
\* pool and provenance play no part.
C10_PassThroughDispatch ==
  (dreq.kind # "none") =>
     LET total == (dreq.head + dreq.count * dreq.size) % SIZE_MOD IN
     /\ (total = 0 /\ dreq.mem # NULL) =>
           (dreq.call = "free" /\ dreq.ptr = dreq.mem /\ dreq.ret = NULL
              /\ (~crashed => asize[dreq.mem] = 0))
     /\ (total = 0 /\ dreq.mem = NULL) =>
           (dreq.call = "none" /\ dreq.ret = NULL)
     /\ (total > 0 /\ dreq.mem = NULL) =>
           (dreq.call = "malloc" /\ dreq.bytes = total
              /\ (dreq.ret # NULL => asize[dreq.ret] = total))
     /\ (total > 0 /\ dreq.mem # NULL) =>
           (dreq.call = "realloc" /\ dreq.ptr = dreq.mem /\ dreq.bytes = total
              /\ (dreq.ret # NULL => asize[dreq.ret] = total))

\* C10 witness: a block was resized by a request with a header and a
\* non-default pool and provenance
C10_Witness ==
  /\ dreq.call = "realloc" /\ dreq.ret # NULL /\ dreq.ret # dreq.mem
  /\ dreq.head > 0 /\ dreq.pool # NULL /\ dreq.prov.label = "Y"

\* C11: with a single caller, a begin whose level is above the threshold
\* writes nothing and changes nothing of the logger, and neither does any
\* extend or end of the entry it suppressed; get_level returns the same
\* threshold afterwards.
C11_SuppressedEntryIsSilent ==
  [][/\ (\E level \in LogLevels, func \in Funcs, stamp \in Stamps :
           level > log.level /\ BeginCheck(1, level, func, stamp)) =>
          (tpc'[1] = "entry" /\ ~tmine'[1] /\ log' = log /\ output' = output)
     /\ (tpc[1] = "entry" /\ ~tmine[1]
           /\ (tcount' # tcount \/ tpc' # tpc)) =>
          (log' = log /\ output' = output /\ get_level' = get_level
             /\ owner' = owner)]_vars

\* C11 witness: with the threshold at warning the caller has run at least
\* one entry with an extend, every one was suppressed, nothing was written
C11_Witness ==
  /\ log.level = LIBUSB_LOG_LEVEL_WARNING
  /\ tpc[1] = "idle" /\ tcount[1].begins >= 1 /\ tcount[1].extends >= 1
  /\ output = << >> /\ ~log.started /\ log.mutex = 0

\* C12: with concurrent callers, the extend and end calls of a caller whose
\* begin was suppressed are no-ops: they write nothing, and leave the buffer,
\* the active flag and the mutex as they were.
C12_SuppressedCallsAreNoOps ==
  [][\A t \in Threads :
       (tpc[t] = "entry" /\ ~tmine[t]
          /\ (tcount'[t] # tcount[t] \/ tpc'[t] # tpc[t])) =>
         (output' = output /\ log' = log)]_vars

\* the writes a begin makes: column header, timestamp, prefix
BeginKinds == { "header1", "header2", "stamp", "prefix" }

C14_EntryStateMachine ==
  [][/\ log'.started => log'.mutex # 0
     /\ \A t \in Threads :
          /\ (tpc[t] = "lock" /\ tpc'[t] = "entry") =>
               (~log.started /\ log'.started /\ log'.mutex = t)
          /\ (tpc[t] = "entry" /\ tmine[t] /\ tpc'[t] = "idle") =>
               (log.started /\ ~log'.started /\ log'.mutex = 0)]_vars

\* the stream the claim assigns to a level
C15_StreamOf(level) ==
  IF level \in { LIBUSB_LOG_LEVEL_ERROR, LIBUSB_LOG_LEVEL_WARNING }
  THEN "stderr" ELSE "stdout"

\* C15: on the console logger the stream of an entry follows from its level
\* alone, stderr for error and warning, stdout for info, debug and trace:
\* what the begin of the entry writes goes to that stream, and every extend
\* and the end called by the thread that started the entry write to it.
C15_StreamSelectedAtBegin ==
  [][\A t \in Threads :
       (backend = "console" /\ targ[t].level >= LIBUSB_LOG_LEVEL_ERROR) =>
         /\ (tpc[t] = "lock" /\ tpc'[t] = "entry") =>
              /\ Len(output') > Len(output)
              /\ \A i \in DOMAIN output' \ DOMAIN output :
                   output'[i].stream = C15_StreamOf(targ[t].level)
         /\ (tmine[t] /\ (tcount'[t].extends > tcount[t].extends
                           \/ tpc'[t] = "idle")) =>
              /\ Len(output') = Len(output) + 1
              /\ output'[Len(output')].stream = C15_StreamOf(targ[t].level)]_vars

\* C16: the default logger prints informational messages to stdout and
\* debug, warning and error messages to stderr: every entry of the console
\* logger at one of these levels has its prefix on that stream.
C16_DefaultStreams ==
  \A i \in DOMAIN output :
    (backend = "console" /\ output[i].kind = "prefix") =>
      /\ output[i].level = "info" => output[i].stream = "stdout"
      /\ output[i].level \in { "debug", "warning", "error" } =>
           output[i].stream = "stderr"

\* the entries written at debug or trace level, by the place of their prefix
VerbosePrefixes ==
  { i \in DOMAIN output :
      output[i].kind = "prefix" /\ output[i].level \in { "debug", "trace" } }

\* C17: over all entries and initialisations of the console logger the
\* two-line column header is written at most once, and it is written by the
\* first debug or trace entry, before that entry's timestamp and prefix.
C17_HeaderOnce ==
  /\ Cardinality({ i \in DOMAIN output : output[i].kind = "header1" }) <= 1
  /\ Cardinality({ i \in DOMAIN output : output[i].kind = "header2" }) <= 1
  /\ \A i \in VerbosePrefixes :
       (\A j \in VerbosePrefixes : i <= j) =>
         /\ i >= 4
         /\ output[i - 3].kind = "header1"
         /\ output[i - 2].kind = "header2"
         /\ output[i - 1].kind = "stamp"

\* C18: in an entry of the buffered logger no extend writes outside the
\* buffer: it writes at most the remaining capacity, terminator included,
\* keeps what earlier calls stored, and drops the text once the buffer is
\* full; the bounded formatter writes no more than the capacity it is given
\* and returns true exactly when the text did not fit in it.
C18_ExtendStaysInBuffer ==
  [][(backend = "android" /\ log.started /\ Extends' > Extends) =>
       /\ ~log'.overrun
       /\ \A i \in DOMAIN log.buffer : i < log.ptr => log'.buffer[i] = log.buffer[i]
       /\ log'.ptr < USBI_ANDROID_BUFFER_SIZE
       /\ log'.buffer[log'.ptr] = 0
       /\ log'.space = USBI_ANDROID_BUFFER_SIZE - log'.ptr
       /\ log.space <= 1 => log'.buffer = log.buffer
       /\ \A text \in UNION { Texts(t) : t \in Threads }, len \in SeenLen(log.space) :
            LET r == usbi_bufprintf(log.buffer, log.ptr, len, text)
            IN  /\ r.wrote \subseteq log.ptr .. log.ptr + len - 1
                /\ r.ret = (Len(text) >= len)]_vars

\* C19: on the buffered logger every entry that was started produces exactly
\* one write, issued by the end its starter calls and carrying the buffer
\* the entry accumulated; begin and extend issue no write, and the end of a
\* suppressed entry issues none.
C19_OneWritePerEntry ==
  [][backend = "android" =>
       \A t \in Threads :
         /\ (tpc'[t] # tpc[t] \/ tcount'[t] # tcount[t]) =>
              IF tpc[t] = "entry" /\ tpc'[t] = "idle" /\ tmine[t]
              THEN /\ Len(output') = Len(output) + 1
                   /\ output'[Len(output')].kind = "log"
                   /\ output'[Len(output')].by = t
                   /\ output'[Len(output')].text = CString(log.buffer, 0)
              ELSE output' = output]_vars

\* C20: while the threshold is LIBUSB_LOG_LEVEL_NONE no message is ever
\* printed: whatever begin, extend and end calls are made, at whatever level,
\* there is no output and the logger is never Active.
C20_NoneThresholdIsSilent ==
  get_level = LIBUSB_LOG_LEVEL_NONE => (output = << >> /\ ~log.started)

\* C21: usbi_allocator_reallocf releases the block it was given exactly once
\* when it returns NULL, does not release it when it returns a block, and
\* never releases it twice.
C21_ReallocfFreesOnce ==
  (dreq.call = "reallocf" /\ dreq.mem # NULL) =>
    /\ dreq.ret = NULL => dreq.frees = 1
    /\ dreq.ret # NULL => dreq.frees = 0
    /\ dreq.frees <= 1

\* C22: a successful fresh allocation appends the new entry at the tail of
\* the registry: last is the new entry, the previous last entry's next is the
\* new entry, the new entry's prev is the previous last and its next is
\* NULL, first changes only if the registry was empty, and the address
\* returned is the one just past the entry header.
C22_FreshAllocationLinksAtTail ==
  [][(Requested /\ frr' /\ req'.kind = "fresh" /\ req'.ret # NULL) =>
       LET entry == USBI_MEM_TO_ENTRY(req'.ret) IN
       /\ entry \in Addr
       /\ req'.ret = entry + sizeof_usbi_pool_entry
       /\ last' = entry
       /\ last # NULL => heap'[last].next = entry
       /\ heap'[entry].prev = last
       /\ heap'[entry].next = NULL
       /\ first' = (IF first = NULL THEN entry ELSE first)]_vars

\* what an entry records about the request that created it
Recorded(e) ==
  [label |-> e.label, file |-> e.file, func |-> e.func, line |-> e.line,
   stamp |-> e.stamp, head |-> e.head, count |-> e.count, size |-> e.size]

C24_InPlaceResizeLeavesRegistry ==
  [][(Requested /\ req'.call = "realloc" /\ req'.ret # NULL /\ ~req'.moved) =>
       /\ req'.ret = req'.mem
       /\ first' = first
       /\ last' = last
       /\ \A a \in Addr : /\ heap'[a].prev = heap[a].prev
                          /\ heap'[a].next = heap[a].next]_vars

\* C24 witness: a resize has just succeeded in place on a block that is not
\* the only one the caller holds
C24_Witness ==
  /\ req.kind = "resize" /\ req.call = "realloc" /\ req.ret # NULL
  /\ ~req.moved /\ req.ret = req.mem /\ ~crashed /\ frr
  /\ Len(live) >= 2 /\ live[1] = req.mem

\* the entries the walk in progress has visited, in order
Visited == [i \in DOMAIN wcalls |-> wcalls[i].entry]

C26_CursorAndSpace ==
  [][(backend = "android" /\ log'.started) =>
       /\ ~log'.overrun
       /\ log'.ptr + log'.space = USBI_ANDROID_BUFFER_SIZE
       /\ log'.space >= 1
       /\ log'.buffer[log'.ptr] = 0
       /\ Len(CString(log'.buffer, 0)) = log'.ptr
       /\ (log.started /\ Extends' > Extends) =>
            /\ log'.ptr - log.ptr = log.space - log'.space
            /\ log'.ptr - log.ptr =
                 Len(CString(log'.buffer, 0)) - Len(CString(log.buffer, 0))]_vars

\* the text the buffer holds
Buffered == CString(log.buffer, 0)

\* C27: every begin of the buffered logger that starts an entry leaves the
\* buffer empty, the cursor at its start and the whole capacity free, and
\* the text the entry's end emits holds only what the entry's own extend
\* calls appended: while the entry is active the buffered text grows only by
\* an extend of the thread that started it, by a beginning of that call's
\* text, and the end emits the buffered text.
C27_EntryHoldsOwnTextOnly ==
  [][backend = "android" =>
       /\ \A t \in Threads :
            /\ (tpc[t] = "lock" /\ tpc'[t] = "entry") =>
                 /\ Buffered' = << >>
                 /\ log'.ptr = 0
                 /\ log'.space = USBI_ANDROID_BUFFER_SIZE
            /\ (tmine[t] /\ log.started /\ tpc'[t] = "idle") =>
                 /\ Len(output') = Len(output) + 1
                 /\ output'[Len(output')].text = Buffered
       /\ (log.started /\ Buffered' # Buffered) =>
            /\ tcount'[owner].extends = tcount[owner].extends + 1
            /\ \E text \in Texts(owner), n \in 1 .. USBI_ANDROID_BUFFER_SIZE :
                 /\ n <= Len(text)
                 /\ Buffered' = Buffered \o SubSeq(text, 1, n)]_vars

\* the kinds of the writes a step appends, in order
NewKinds == [i \in 1 .. Len(output') - Len(output) |-> output'[Len(output) + i].kind]

\* C28: with a single caller on the console logger, an entry that is started
\* is written to one stream in this order: the prefix with the level's name
\* and the function's name, preceded by the timestamp and the thread id
\* exactly when the level is debug or trace (the column header, when due,
\* comes before them); then the text of every extend, in call order; then
\* one line terminator, written by end.  Nothing else is written.
C28_ConsoleEntryLayout ==
  [][backend = "console" =>
       /\ (tpc[1] = "lock" /\ tpc'[1] = "entry") =>
            LET verbose == targ[1].level \in { LIBUSB_LOG_LEVEL_DEBUG,
                                               LIBUSB_LOG_LEVEL_TRACE }
                n == Len(output')
            IN  /\ NewKinds \in (IF verbose
                                 THEN { << "stamp", "prefix" >>,
                                        << "header1", "header2", "stamp", "prefix" >> }
                                 ELSE { << "prefix" >> })
                /\ output'[n].level = libusb_log_level_str(targ[1].level)
                /\ output'[n].func = targ[1].func
                /\ verbose => (output'[n - 1].stamp = targ[1].stamp
                                 /\ output'[n - 1].tid = 1)
                /\ \A i \in Len(output) + 1 .. n : output'[i].stream = log'.stream
       /\ \A text \in Texts(1) :
            (tmine[1] /\ Extend(1, text)) =>
              /\ NewKinds = << "text" >>
              /\ output'[Len(output')].text = text
              /\ output'[Len(output')].stream = log.stream
       /\ (tmine[1] /\ tpc'[1] = "idle") =>
            /\ NewKinds = << "nl" >>
            /\ output'[Len(output')].stream = log.stream
       /\ (tmine[1] /\ tmine'[1]) => log'.stream = log.stream
       /\ output' # output =>
            \/ tpc[1] = "lock" /\ tpc'[1] = "entry"
            \/ tmine[1] /\ tcount'[1].extends = tcount[1].extends + 1
            \/ tmine[1] /\ tpc'[1] = "idle"]_vars

\* C28 witness: a debug entry with two extends has been written and ended
C28_Witness ==
  /\ backend = "console" /\ tpc[1] = "idle" /\ Len(output) = 7
  /\ [i \in 1 .. 7 |-> output[i].kind] =
       << "header1", "header2", "stamp", "prefix", "text", "text", "nl" >>
  /\ output[4].level = "debug"
  /\ output[5].text = << 1 >> /\ output[6].text = << 1, 1 >>

\* C29: after set_level(L), get_level returns L and begin filters entries
\* against L, on both loggers; the declared state other than the threshold,
\* an entry in progress included, is as it was.
C29_LevelRoundTrip ==
  [][\A level \in LogLevels :
       set_level(level) =>
         /\ get_level' = level
         /\ \A lv \in LogLevels, func \in Funcs, stamp \in Stamps :
              (ENABLED BeginCheck(1, lv, func, stamp)) =>
                (lv > level <=> log'.level < lv)
         /\ \A m \in DOMAIN log \ { "level" } : log'[m] = log[m]
         /\ UNCHANGED << tpc, targ, tcount, tmine, owner, output >>]_vars

\* C30: for every head, count and size of the machine's width, a fresh
\* allocation or a resize that succeeds through either built-in backend
\* provides at least head + count * size bytes of user memory, the
\* mathematical value; and in the tracking backend a request whose
\* mathematical total is not zero does not take the release branch.
C30_MathematicalTotalIsServed ==
  [][/\ \A mem \in CallerMem, t \in SizeTriples :
          MathTotal(t[1], t[2], t[3]) # 0 =>
            /\ ~DebugNoOp(mem, t[1], t[2], t[3])
            /\ ~DebugFree(mem, t[1], t[2], t[3])
            /\ ((DebugRealloc(mem, t[1], t[2], t[3])
                   \/ \E prov \in Provenance :
                        DebugMalloc(prov, mem, t[1], t[2], t[3]))
                 /\ ~crashed' /\ req'.ret # NULL) =>
                 asize'[USBI_MEM_TO_ENTRY(req'.ret)] - sizeof_usbi_pool_entry
                   >= MathTotal(t[1], t[2], t[3])
     /\ (dreq'.kind \in { "fresh", "resize" } /\ dreq'.ret # NULL /\ ~crashed') =>
          asize'[dreq'.ret] >= MathTotal(dreq'.head, dreq'.count, dreq'.size)]_vars

\* every thread is outside allocate
RaceQuiet == \A t \in Threads : RaceAt(t, "idle")

\* C31: link is not synchronized.  When no two requests have overlapped the
\* registry is one that the requests produce in some serial order; when the
\* statements of two requests interleave, a registry is reached that no
\* serial order of the same requests produces, with a live entry missing
\* from the chain that ends at last.
C31_SerialUnlessOverlapped ==
  (RaceQuiet /\ ~race.overlap) =>
     Registry(heap, first, last, RaceDone) \in SerialRegistries

\* C31 witness: two allocations have returned, the registry is none of the
\* serial ones and one of the two live entries is not reached from last
C31_Witness ==
  /\ RaceQuiet /\ race.overlap
  /\ Cardinality(RaceDone) = 2 /\ RaceDone = Allocated
  /\ Registry(heap, first, last, RaceDone) \notin SerialRegistries
  /\ \E e \in Allocated :
       \A i \in DOMAIN BackFrom(heap, last, MaxBlocks + 1) :
         BackFrom(heap, last, MaxBlocks + 1)[i] # e

\* C32: the logger blocks on the mutex only.  Under fair scheduling, with
\* every caller that began calling end, a begin that waits for the mutex
\* gets it and returns: no caller waits forever for a mutex that no entry
\* in progress holds.
C32_BeginReturns ==
  \A t \in Threads : (tpc[t] = "lock") ~> (tpc[t] = "entry")

\* C33: for any interleaving of callers on one logger, an end that reaches
\* usbi_mutex_unlock is made by the thread that holds the mutex, having
\* locked it in its own begin; so a mutex is never unlocked more often than
\* it was locked.
C33_UnlockByHolder ==
  [][\A t \in Threads :
       (End(t) /\ log.started) => (log.mutex = t /\ tmine[t])]_vars

\* the last..first traversal of the registry
BackTraversal == BackFrom(heap, last, MaxBlocks + 1)

\* C34: after any sequence of fresh allocations, resizes and releases by one
\* caller, last is the most recently allocated block that is still live, and
\* the traversal from last along prev visits exactly the live blocks, the
\* most recently allocated first.
C34_BackwardTraversal ==
  (frr /\ ~crashed /\ ~req.uaf) =>
     /\ last = (IF live = << >> THEN NULL ELSE LiveEntries[Len(live)])
     /\ BackTraversal = [i \in DOMAIN live |-> LiveEntries[Len(live) + 1 - i]]

\* C35: in any sequence of fresh allocations, resizes and releases by one
\* caller, link, unlink and relink read and write only entries at addresses
\* that are allocated at that time: no request goes through a prev or next
\* link to the old address of an entry that a resize moved or a release
\* freed.
C35_RegistryTouchesAllocatedOnly ==
  [][(nreq' = nreq + 1 /\ frr') =>
       /\ ~req'.uaf /\ ~crashed'
       /\ req'.moved =>
            LET old == USBI_MEM_TO_ENTRY(req'.mem) IN
            \A x \in { heap[old].prev, heap[old].next } \ { NULL } :
              x \in Allocated \ { old }]_vars

\* C36: usbi_allocator_walk does not call through a NULL walk member: for
\* the pass-through allocator and for the tracking allocator a walk is
\* dispatched to a defined walk function only.
C36_WalkDispatchedToFunction ==
  [][\A allocator \in { usbi_default_allocator, usbi_debug_allocator } :
       WalkVia(allocator) => allocator.walk # "NULL"]_vars

====
